---------------------------- MODULE Spec2Model ----------------------------
(***************************************************************************)
(* go-find-duplicates: the command line driver (main), the reports and the *)
(* removal of duplicates (report.go), the hashing engine                   *)
(* (service/file_hash.go) and the scan service.FindDuplicates with its     *)
(* grouping store entity.DigestToFiles.                                    *)
(*                                                                         *)
(* Two specifications:                                                     *)
(*   Spec      one run of main, from flag parsing to the removal of the    *)
(*             duplicates, with the worker pool of the scan in between;    *)
(*   SpecHash  one call of service.GetDigest on a file that another        *)
(*             process may resize between two system calls.                *)
(*                                                                         *)
(* A path is modelled by its rank in the lexicographic order of the paths  *)
(* of the run: path 1 is "/a/1.txt", path 2 is "/a/2.txt", ... so that     *)
(* sort.Strings is the ascending sort of the ranks.                        *)
(***************************************************************************)
EXTENDS Integers, Sequences, FiniteSets, TLC

\* ------------------------------------------------------------------ bounds
MaxFiles == 3
MaxCPU == 2
MaxParallelism == 2
MaxResizes == 2
MaxQuarters == 9

\* ------------------------------------------------------- program constants
thresholdFileSize == 16 * 1024

OutputModeStdOut == "print"
OutputModeTextFile == "text"
OutputModeCsvFile == "csv"
OutputModeJSON == "json"
OutputModes == {OutputModeStdOut, OutputModeTextFile, OutputModeCsvFile, OutputModeJSON}

Paths == 1..MaxFiles

\* The files of the scanned tree: two content classes, one per fast regime.
FileKinds ==
    { [size |-> thresholdFileSize, content |-> "x"],
      [size |-> 2 * thresholdFileSize, content |-> "y"] }

VARIABLES
    \* ---- main
    pc,             \* position of main
    flags,          \* the parsed command line
    fs,             \* path -> the file at that path
    log,            \* milestones of main, in the order they happened
    reportFileName, \* "" or the report file created
    \* ---- service.FindDuplicates
    allFiles,       \* the enumerated paths
    queue,          \* enumerated paths not yet handed to a worker
    nworkers,       \* size of the worker pool
    inflight,       \* the files the busy workers hold, one each
    exited,         \* number of workers that ended
    store,          \* the DigestToFiles under construction: <<[digest, paths]>>
    hashCount,      \* path -> number of times GetDigest was invoked on it
    fileErrs,       \* paths whose hashing failed
    \* ---- what FindDuplicates returned
    duplicates, duplicateTotalCount, savingsSize, fdErr,
    dupFinal,       \* the store as the pipeline left it
    \* ---- report and removal
    reported,       \* what reportDuplicates wrote
    removeAttempts, \* the os.Remove calls, in order
    removeFails,    \* the paths whose os.Remove fails
    removeErr,      \* the multierr returned by RemoveDuplicates (<<>> is nil)
    deleted,        \* the paths removed from the file system
    \* ---- one call of service.GetDigest
    hpc,            \* position of GetDigest
    hfile,          \* the file as it is now
    hThorough,      \* isThorough
    hinfo,          \* what GetDigest's os.Lstat returned
    hstat,          \* what fileHash's os.Lstat returned
    hcrucial,       \* the call of readCrucialBytes, if one was made
    hhash,          \* what fileHash returned
    hres,           \* what GetDigest returned
    resizes         \* number of times another process resized the file

mainVars == <<pc, flags, fs, log, reportFileName>>
scanVars == <<allFiles, queue, nworkers, inflight, exited, store, hashCount, fileErrs>>
resultVars == <<duplicates, duplicateTotalCount, savingsSize, fdErr, dupFinal>>
reportVars == <<reported, removeAttempts, removeFails, removeErr, deleted>>
hashVars == <<hpc, hfile, hThorough, hinfo, hstat, hcrucial, hhash, hres, resizes>>
vars == <<mainVars, scanVars, resultVars, reportVars, hashVars>>

\* ------------------------------------------------------------ sequences
RECURSIVE SumSeq(_)
SumSeq(s) == IF s = <<>> THEN 0 ELSE Head(s) + SumSeq(Tail(s))

RECURSIVE Concat(_)
Concat(ss) == IF ss = <<>> THEN <<>> ELSE Head(ss) \o Concat(Tail(ss))

Range(s) == { s[i] : i \in DOMAIN s }

Min(S) == CHOOSE x \in S : \A y \in S : x <= y

\* sort.Strings: ascending, in place
SortStrings(paths) == SortSeq(paths, LAMBDA a, b : a < b)


\* ------------------------------------------------ service/file_hash.go
\* The sizes a file takes in SpecHash: around the threshold, and the multiples
\* of a quarter of the threshold.
Sizes ==
    {thresholdFileSize - 1, thresholdFileSize, thresholdFileSize + 1}
        \cup { k * (thresholdFileSize \div 4) : k \in 0..MaxQuarters }

NoHash == [prefix |-> "", algo |-> "", data |-> <<>>]
NoDigest == [FileExtension |-> "", FileSize |-> 0, FileHash |-> NoHash]

\* os.Lstat of a file [exists, regular, size, content]
Lstat(file) == [ok |-> file.exists, regular |-> file.regular, size |-> file.size]

\* (*os.File).ReadAt(b, off) with len(b) = len on a file of curSize bytes: the
\* bytes [off, off+n) and a non-nil error whenever n < len(b).
ReadAt(curSize, off, len) ==
    LET avail == IF off < 0 \/ curSize - off < 0 THEN 0 ELSE curSize - off
        n == IF avail < len THEN avail ELSE len
    IN  [off |-> off, len |-> len, n |-> n, err |-> (off < 0 \/ n < len)]

\* os.ReadFile: the whole file as it is when read
ReadFile(file) ==
    IF file.exists
    THEN [err |-> FALSE, bytes |-> <<[content |-> file.content, lo |-> 0, hi |-> file.size]>>]
    ELSE [err |-> TRUE, bytes |-> <<>>]

\* crucialRequests with the last read starting half a threshold before the end
crucialRequestsEarlyTail(fileSize) ==
    << [off |-> 0, len |-> thresholdFileSize \div 2],
       [off |-> fileSize \div 2, len |-> thresholdFileSize \div 4],
       [off |-> fileSize - thresholdFileSize \div 2, len |-> thresholdFileSize \div 4] >>

\* the three ReadAt calls of readCrucialBytes: offset and buffer length
crucialRequests(fileSize) ==
    << [off |-> 0, len |-> thresholdFileSize \div 2],
       [off |-> fileSize \div 2, len |-> thresholdFileSize \div 4],
       [off |-> fileSize - thresholdFileSize \div 4, len |-> thresholdFileSize \div 4] >>

\* readCrucialBytes(filePath, fileSize) on a file that opens iff openOk and holds
\* curSizes[i] bytes at the time of the i-th read. reads: the ReadAt calls made.
readCrucialBytes(openOk, content, fileSize, curSizes) ==
    LET req == crucialRequests(fileSize)
        r1 == ReadAt(curSizes[1], req[1].off, req[1].len)
        r2 == ReadAt(curSizes[2], req[2].off, req[2].len)
        r3 == ReadAt(curSizes[3], req[3].off, req[3].len)
        piece(r) == [content |-> content, lo |-> r.off, hi |-> r.off + r.n]
    IN  IF ~openOk THEN [err |-> TRUE, bytes |-> <<>>, reads |-> <<>>]
        ELSE IF r1.err THEN [err |-> TRUE, bytes |-> <<>>, reads |-> <<r1>>]
        ELSE IF r2.err THEN [err |-> TRUE, bytes |-> <<>>, reads |-> <<r1, r2>>]
        ELSE IF r3.err THEN [err |-> TRUE, bytes |-> <<>>, reads |-> <<r1, r2, r3>>]
        ELSE [err |-> FALSE, bytes |-> <<piece(r1), piece(r2), piece(r3)>>,
              reads |-> <<r1, r2, r3>>]

\* hashRegime with the boundary size sent to the sampled regime
hashRegimeBoundaryMoved(isThorough, size) ==
    IF isThorough THEN "thorough"
    ELSE IF size < thresholdFileSize THEN "full"
    ELSE "sampled"

\* the switch of fileHash
hashRegime(isThorough, size) ==
    IF isThorough THEN "thorough"
    ELSE IF size <= thresholdFileSize THEN "full"
    ELSE "sampled"

regimePrefix(regime) ==
    CASE regime = "thorough" -> ""
      [] regime = "full" -> "f"
      [] regime = "sampled" -> "s"

\* lo.TernaryF(isThorough, sha256.New, crc32.NewIEEE)
hashAlgo(isThorough) == IF isThorough THEN "sha256" ELSE "crc32"

\* fileHash(path, isThorough): st is what its os.Lstat returned, whole and crucial
\* what os.ReadFile and readCrucialBytes return when called. The hash string is
\* kept as its parts: the prefix, and the digest as (algorithm, bytes hashed).
fileHash(st, isThorough, whole, crucial) ==
    IF ~st.ok THEN [err |-> "couldn't stat", hash |-> NoHash]
    ELSE IF ~st.regular THEN [err |-> "non-regular file", hash |-> NoHash]
    ELSE LET regime == hashRegime(isThorough, st.size)
             rd == IF regime = "sampled" THEN crucial ELSE whole
         IN  IF rd.err THEN [err |-> "couldn't calculate hash", hash |-> NoHash]
             ELSE [err |-> "",
                   hash |-> [prefix |-> regimePrefix(regime),
                             algo |-> hashAlgo(isThorough),
                             data |-> rd.bytes]]

\* GetDigest(path, isThorough): info is what its own os.Lstat returned, h the
\* result of fileHash. Every path of the model has the extension "txt".
GetDigest(info, h) ==
    IF ~info.ok THEN [err |-> "lstat", digest |-> NoDigest]
    ELSE IF h.err # "" THEN [err |-> h.err, digest |-> NoDigest]
    ELSE [err |-> "",
          digest |-> [FileExtension |-> "txt", FileSize |-> info.size, FileHash |-> h.hash]]

\* GetDigest on a file nobody touches while it runs
GetDigestOf(file, isThorough) ==
    GetDigest(Lstat(file),
              fileHash(Lstat(file), isThorough, ReadFile(file),
                       readCrucialBytes(file.exists, file.content, file.size,
                                        <<file.size, file.size, file.size>>)))


\* ------------------------------------------------ entity.DigestToFiles
\* An insertion-ordered multimap: <<[digest, paths]>> in first-seen order.
\* DigestToFiles.Set(digest, path)
Set(st, digest, path) ==
    IF \E i \in DOMAIN st : st[i].digest = digest
    THEN [i \in DOMAIN st |->
            IF st[i].digest = digest
            THEN [st[i] EXCEPT !.paths = Append(@, path)]
            ELSE st[i]]
    ELSE Append(st, [digest |-> digest, paths |-> <<path>>])

\* the digests with one path are no duplicates: they leave the store
dropSingletons(st) == SelectSeq(st, LAMBDA g : Len(g.paths) >= 2)

\* totalDuplicateCount counting every path of a group
totalDuplicateCountAllPaths(groups) ==
    SumSeq([i \in DOMAIN groups |-> Len(groups[i].paths)])

\* sum over the groups of len(paths) - 1
totalDuplicateCount(groups) ==
    SumSeq([i \in DOMAIN groups |-> Len(groups[i].paths) - 1])

\* sum over the groups of digest.size * (len(paths) - 1)
totalSavingsSize(groups) ==
    SumSeq([i \in DOMAIN groups |-> groups[i].digest.FileSize * (Len(groups[i].paths) - 1)])

\* ------------------------------------------------------------ report.go
\* getReportAsText: iter.Next() hands out the path slice the store holds, and
\* sort.Strings sorts that slice in place: the store comes back sorted.
getReportAsText(dups) ==
    LET sorted == [i \in DOMAIN dups |-> [dups[i] EXCEPT !.paths = SortStrings(@)]]
    IN  [store |-> sorted,
         out |-> [i \in DOMAIN sorted |->
                    [digest |-> sorted[i].digest,
                     count |-> Len(sorted[i].paths) - 1,
                     paths |-> sorted[i].paths]]]

\* createCsvReport: one row per path, in the order of the store
createCsvReport(dups) ==
    Concat([i \in DOMAIN dups |->
              [j \in DOMAIN dups[i].paths |->
                 [digest |-> dups[i].digest, path |-> dups[i].paths[j]]]])

\* createJSONReport: the groups as they are
createJSONReport(dups) ==
    [i \in DOMAIN dups |-> [digest |-> dups[i].digest, paths |-> dups[i].paths]]

\* reportDuplicates: the store after it, what was written, the error returned
\* and whether the process exited inside it (createTextFileReport's os.Exit).
reportDuplicates(dups, outputMode, writeOk, marshalOk) ==
    CASE outputMode = OutputModeStdOut ->
            [store |-> getReportAsText(dups).store, out |-> getReportAsText(dups).out,
             err |-> FALSE, exit |-> FALSE]
      [] outputMode = OutputModeTextFile ->
            [store |-> getReportAsText(dups).store,
             out |-> IF writeOk THEN getReportAsText(dups).out ELSE <<>>,
             err |-> FALSE, exit |-> ~writeOk]
      [] outputMode = OutputModeCsvFile ->
            [store |-> dups, out |-> IF writeOk THEN createCsvReport(dups) ELSE <<>>,
             err |-> FALSE, exit |-> FALSE]
      [] outputMode = OutputModeJSON ->
            [store |-> dups,
             out |-> IF marshalOk /\ writeOk THEN createJSONReport(dups) ELSE <<>>,
             err |-> ~marshalOk, exit |-> FALSE]

\* the inner loop of RemoveDuplicates: every path but the first of the slice
RECURSIVE removePaths(_, _, _, _)
removePaths(paths, i, failing, acc) ==
    IF i > Len(paths) THEN acc
    ELSE removePaths(paths, i + 1, failing,
            IF i > 1
            THEN [attempts |-> Append(acc.attempts, paths[i]),
                  err |-> IF paths[i] \in failing
                          THEN Append(acc.err, paths[i]) ELSE acc.err]
            ELSE acc)

RECURSIVE removeGroups(_, _, _, _)
removeGroups(dups, g, failing, acc) ==
    IF g > Len(dups) THEN acc
    ELSE removeGroups(dups, g + 1, failing, removePaths(dups[g].paths, 1, failing, acc))

\* RemoveDuplicates returning at the first os.Remove that fails
RemoveDuplicatesFailFast(dups, failing) ==
    LET all == removeGroups(dups, 1, failing, [attempts |-> <<>>, err |-> <<>>])
        bad == { i \in DOMAIN all.attempts : all.attempts[i] \in failing }
    IN  IF bad = {} THEN all
        ELSE [attempts |-> SubSeq(all.attempts, 1, Min(bad)),
              err |-> <<all.attempts[Min(bad)]>>]

\* RemoveDuplicates(duplicates): os.Remove(path) fails iff path \in failing.
\* attempts: the os.Remove calls; err: the multierr, one entry per failure.
RemoveDuplicates(dups, failing) ==
    removeGroups(dups, 1, failing, [attempts |-> <<>>, err |-> <<>>])

\* ------------------------------------------------------------------ main
\* getParallelism without the floor of one worker
getParallelismNoFloor(p, n) ==
    IF p = 0 THEN n - 1 ELSE p

\* flags.getParallelism()
getParallelism(p, n) ==
    IF p = 0 THEN (IF n > 1 THEN n - 1 ELSE 1) ELSE p

\* afterScan taking a per-file hashing failure for an error of the scan
afterScanFileErrsFatal(err, dups) ==
    IF err # "" \/ fileErrs # {} THEN "exit_finding_duplicates"
    ELSE IF dups = <<>> THEN "return_no_duplicates"
    ELSE "reportDuplicates"

\* main after FindDuplicates returned: exit on its error, return when there is
\* no duplicate, else go on to the report
afterScan(err, dups) ==
    IF err # "" THEN "exit_finding_duplicates"
    ELSE IF dups = <<>> THEN "return_no_duplicates"
    ELSE "reportDuplicates"

\* main after reportDuplicates returned
afterReport(r) ==
    IF r.exit THEN "exit_creating_report"
    ELSE IF r.err THEN "exit_writing_report"
    ELSE "removal"

\* the removal run whatever the flag says
isRemoveDuplicatesAlways(f) == TRUE

\* flags.isRemoveDuplicates()
isRemoveDuplicates(f) == f.remove

DefaultFlags ==
    [isHelp |-> FALSE, getVersion |-> FALSE, remove |-> FALSE, output |-> OutputModeTextFile,
     isThorough |-> FALSE, parallelism |-> 0, args |-> "none"]

FlagValues ==
    [isHelp : BOOLEAN, getVersion : BOOLEAN, remove : BOOLEAN,
     output : OutputModes \cup {"bogus"}, isThorough : BOOLEAN,
     parallelism : 0..MaxParallelism, args : {"none", "unreadable", "ok"}]

NoCrucial == [called |-> FALSE, err |-> FALSE, bytes |-> <<>>, reads |-> <<>>]

HashIdle ==
    /\ hpc = "idle"
    /\ hfile = [exists |-> FALSE, regular |-> FALSE, size |-> 0, content |-> "x"]
    /\ hThorough = FALSE
    /\ hinfo = [ok |-> FALSE, regular |-> FALSE, size |-> 0]
    /\ hstat = [ok |-> FALSE, regular |-> FALSE, size |-> 0]
    /\ hcrucial = NoCrucial
    /\ hhash = [err |-> "", hash |-> NoHash]
    /\ hres = [err |-> "", digest |-> NoDigest]
    /\ resizes = 0

MainIdle ==
    /\ flags = DefaultFlags
    /\ log = <<>>
    /\ reportFileName = ""
    /\ allFiles = {}
    /\ queue = <<>>
    /\ nworkers = 0
    /\ inflight = {}
    /\ exited = 0
    /\ store = <<>>
    /\ hashCount = [p \in Paths |-> 0]
    /\ fileErrs = {}
    /\ duplicates = <<>>
    /\ duplicateTotalCount = 0
    /\ savingsSize = 0
    /\ fdErr = ""
    /\ dupFinal = <<>>
    /\ reported = <<>>
    /\ removeAttempts = <<>>
    /\ removeFails = {}
    /\ removeErr = <<>>
    /\ deleted = {}

Init ==
    /\ pc = "start"
    /\ \E n \in 0..MaxFiles : fs \in [1..n -> FileKinds]
    /\ MainIdle
    /\ HashIdle

\* flag.Parse()
MainParse ==
    /\ pc = "start"
    /\ flags' \in FlagValues
    /\ pc' = "parsed"
    /\ log' = Append(log, "parsed")
    /\ UNCHANGED <<fs, reportFileName, scanVars, resultVars, reportVars, hashVars>>

\* --help and --version
MainHelpVersion ==
    /\ pc = "parsed"
    /\ pc' = IF flags.isHelp THEN "exit_help"
             ELSE IF flags.getVersion THEN "exit_version"
             ELSE "readDirectories"
    /\ UNCHANGED <<flags, fs, log, reportFileName, scanVars, resultVars, reportVars, hashVars>>

\* readDirectories()
MainReadDirectories ==
    /\ pc = "readDirectories"
    /\ pc' = IF flags.args = "none" THEN "exit_invalid_num_args"
             ELSE IF flags.args = "unreadable" THEN "exit_input_directory_not_readable"
             ELSE "getOutputMode"
    /\ log' = IF flags.args = "ok" THEN Append(log, "directories") ELSE log
    /\ UNCHANGED <<flags, fs, reportFileName, scanVars, resultVars, reportVars, hashVars>>

\* flags.getOutputMode() and createReportFileIfApplicable
MainCreateReportFile ==
    /\ pc = "getOutputMode"
    /\ \E createOk \in BOOLEAN :
         /\ pc' = IF flags.output \notin OutputModes THEN "exit_invalid_output_mode"
                  ELSE IF flags.output # OutputModeStdOut /\ ~createOk
                       THEN "exit_report_file_creation_failed"
                  ELSE "FindDuplicates"
         /\ reportFileName' =
                IF flags.output \in OutputModes \ {OutputModeStdOut} /\ createOk
                THEN flags.output ELSE ""
    /\ UNCHANGED <<flags, fs, log, scanVars, resultVars, reportVars, hashVars>>

\* service.FindDuplicates: the enumeration; a tree that cannot be walked is the
\* fatal condition, else the files go to the pool of getParallelism() workers
\* (n is what runtime.NumCPU() returns)
ScanEnumerate ==
    /\ pc = "FindDuplicates"
    /\ \E fatal \in BOOLEAN, n \in 1..MaxCPU :
         IF fatal
         THEN /\ fdErr' = "fatal"
              /\ pc' = "scanReturned"
              /\ log' = Append(log, "scan_failed")
              /\ UNCHANGED <<scanVars, duplicates, duplicateTotalCount, savingsSize, dupFinal>>
         ELSE /\ allFiles' = DOMAIN fs
              /\ queue' = [i \in DOMAIN fs |-> i]
              /\ nworkers' = getParallelism(flags.parallelism, n)
              /\ pc' = "scanning"
              /\ log' = Append(log, "scan_started")
              /\ UNCHANGED <<inflight, exited, store, hashCount, fileErrs, resultVars>>
    /\ UNCHANGED <<flags, fs, reportFileName, reportVars, hashVars>>

\* the workers that neither hold a file nor have ended
IdleWorkers == nworkers - exited - Cardinality(inflight)

\* an idle worker takes the next file of the list
WorkerTake ==
    /\ pc = "scanning"
    /\ IdleWorkers > 0
    /\ queue # <<>>
    /\ inflight' = inflight \cup {Head(queue)}
    /\ queue' = Tail(queue)
    /\ UNCHANGED <<mainVars, allFiles, nworkers, exited, store, hashCount, fileErrs,
                   resultVars, reportVars, hashVars>>

\* the worker holding f hashes it (the file may have vanished since the
\* enumeration): the digest goes to the store, a failure to the errors
WorkerHash(f) ==
    /\ pc = "scanning"
    /\ f \in inflight
    /\ \E present \in BOOLEAN :
         LET file == [exists |-> present, regular |-> TRUE,
                      size |-> fs[f].size, content |-> fs[f].content]
             r == GetDigestOf(file, flags.isThorough)
         IN  /\ hashCount' = [hashCount EXCEPT ![f] = @ + 1]
             /\ IF r.err # ""
                THEN fileErrs' = fileErrs \cup {f} /\ store' = store
                ELSE store' = Set(store, r.digest, f) /\ fileErrs' = fileErrs
    /\ inflight' = inflight \ {f}
    /\ UNCHANGED <<mainVars, allFiles, queue, nworkers, exited, resultVars, reportVars, hashVars>>

\* an idle worker with nothing left to take ends
WorkerExit ==
    /\ pc = "scanning"
    /\ IdleWorkers > 0
    /\ queue = <<>>
    /\ exited' = exited + 1
    /\ UNCHANGED <<mainVars, allFiles, queue, nworkers, inflight, store, hashCount, fileErrs,
                   resultVars, reportVars, hashVars>>

\* the barrier: every worker has ended; the results are final
ScanJoin ==
    /\ pc = "scanning"
    /\ exited = nworkers
    /\ duplicates' = dropSingletons(store)
    /\ dupFinal' = dropSingletons(store)
    /\ duplicateTotalCount' = totalDuplicateCount(dropSingletons(store))
    /\ savingsSize' = totalSavingsSize(dropSingletons(store))
    /\ fdErr' = ""
    /\ pc' = "scanReturned"
    /\ log' = Append(log, "scan_returned")
    /\ UNCHANGED <<flags, fs, reportFileName, scanVars, reportVars, hashVars>>

\* main: if fdErr != nil ...; if duplicates.Size() == 0 ...; "Found %d duplicates"
MainAfterScan ==
    /\ pc = "scanReturned"
    /\ pc' = afterScan(fdErr, duplicates)
    /\ log' = IF afterScan(fdErr, duplicates) = "reportDuplicates"
              THEN Append(log, "found") ELSE log
    /\ UNCHANGED <<flags, fs, reportFileName, scanVars, resultVars, reportVars, hashVars>>

\* main: reportDuplicates(...)
MainReport ==
    /\ pc = "reportDuplicates"
    /\ \E writeOk \in BOOLEAN, marshalOk \in BOOLEAN :
         LET r == reportDuplicates(duplicates, flags.output, writeOk, marshalOk)
         IN  /\ duplicates' = r.store
             /\ reported' = r.out
             /\ pc' = afterReport(r)
             /\ log' = IF afterReport(r) = "removal" THEN Append(log, "reported") ELSE log
    /\ UNCHANGED <<flags, fs, reportFileName, scanVars, duplicateTotalCount,
                   savingsSize, fdErr, dupFinal, removeAttempts, removeFails, removeErr,
                   deleted, hashVars>>

\* main: if flags.isRemoveDuplicates() { RemoveDuplicates(duplicates) }
MainRemove ==
    /\ pc = "removal"
    /\ IF isRemoveDuplicates(flags)
       THEN \E failing \in SUBSET allFiles :
              LET r == RemoveDuplicates(duplicates, failing)
              IN  /\ removeAttempts' = r.attempts
                  /\ removeErr' = r.err
                  /\ removeFails' = failing
                  /\ deleted' = Range(r.attempts) \ failing
                  /\ log' = Append(log, "removed")
       ELSE UNCHANGED <<removeAttempts, removeErr, removeFails, deleted, log>>
    /\ pc' = "done"
    /\ UNCHANGED <<flags, fs, reportFileName, scanVars, resultVars, reported, hashVars>>

Next ==
    \/ MainParse
    \/ MainHelpVersion
    \/ MainReadDirectories
    \/ MainCreateReportFile
    \/ ScanEnumerate
    \/ WorkerTake
    \/ \E f \in inflight : WorkerHash(f)
    \/ WorkerExit
    \/ ScanJoin
    \/ MainAfterScan
    \/ MainReport
    \/ MainRemove

Spec == Init /\ [][Next]_vars


\* ------------------------------------------- one call of service.GetDigest
InitHash ==
    /\ pc = "GetDigest"
    /\ fs = <<>>
    /\ MainIdle
    /\ hpc = "GetDigest"
    /\ hfile \in [exists : BOOLEAN, regular : BOOLEAN, size : Sizes, content : {"x"}]
    /\ hThorough \in BOOLEAN
    /\ hinfo = [ok |-> FALSE, regular |-> FALSE, size |-> 0]
    /\ hstat = [ok |-> FALSE, regular |-> FALSE, size |-> 0]
    /\ hcrucial = NoCrucial
    /\ hhash = [err |-> "", hash |-> NoHash]
    /\ hres = [err |-> "", digest |-> NoDigest]
    /\ resizes = 0

\* another process writes to the file or truncates it
Resize ==
    /\ hpc \in {"GetDigest", "fileHash", "read"}
    /\ resizes < MaxResizes
    /\ \E s \in Sizes \ {hfile.size} : hfile' = [hfile EXCEPT !.size = s]
    /\ resizes' = resizes + 1
    /\ UNCHANGED <<hpc, hThorough, hinfo, hstat, hcrucial, hhash, hres>>
    /\ UNCHANGED <<mainVars, scanVars, resultVars, reportVars>>

\* GetDigest: info, err := os.Lstat(path)
HLstat ==
    /\ hpc = "GetDigest"
    /\ hinfo' = Lstat(hfile)
    /\ IF Lstat(hfile).ok
       THEN hpc' = "fileHash" /\ hres' = hres
       ELSE hpc' = "done" /\ hres' = GetDigest(Lstat(hfile), hhash)
    /\ UNCHANGED <<hfile, hThorough, hstat, hcrucial, hhash, resizes>>
    /\ UNCHANGED <<mainVars, scanVars, resultVars, reportVars>>

\* fileHash: fileInfo, statErr := os.Lstat(path), and the regular-file check
HFileHashStat ==
    /\ hpc = "fileHash"
    /\ hstat' = Lstat(hfile)
    /\ IF Lstat(hfile).ok /\ Lstat(hfile).regular
       THEN hpc' = "read" /\ UNCHANGED <<hhash, hres>>
       ELSE /\ hpc' = "done"
            /\ hhash' = fileHash(Lstat(hfile), hThorough, ReadFile(hfile), hcrucial)
            /\ hres' = GetDigest(hinfo, hhash')
    /\ UNCHANGED <<hfile, hThorough, hinfo, hcrucial, resizes>>
    /\ UNCHANGED <<mainVars, scanVars, resultVars, reportVars>>

\* the sizes the file may have at a later read of readCrucialBytes, when it is called
LaterSizes ==
    IF hashRegime(hThorough, hstat.size) = "sampled" THEN Sizes ELSE {hfile.size}

\* fileHash: the switch, the read it selects and the hash; the file holds c2 and
\* c3 bytes at the second and third read of readCrucialBytes
HRead ==
    /\ hpc = "read"
    /\ \E readOk \in BOOLEAN, c2 \in LaterSizes, c3 \in LaterSizes :
         LET whole == IF readOk THEN ReadFile(hfile) ELSE [err |-> TRUE, bytes |-> <<>>]
             sampled == hashRegime(hThorough, hstat.size) = "sampled"
             crucial == readCrucialBytes(readOk, hfile.content, hstat.size,
                                         <<hfile.size, c2, c3>>)
         IN  /\ hcrucial' = IF sampled
                            THEN [called |-> TRUE, err |-> crucial.err,
                                  bytes |-> crucial.bytes, reads |-> crucial.reads]
                            ELSE hcrucial
             /\ hhash' = fileHash(hstat, hThorough, whole, crucial)
             /\ hres' = GetDigest(hinfo, hhash')
    /\ hpc' = "done"
    /\ UNCHANGED <<hfile, hThorough, hinfo, hstat, resizes>>
    /\ UNCHANGED <<mainVars, scanVars, resultVars, reportVars>>

NextHash ==
    \/ Resize
    \/ HLstat
    \/ HFileHashStat
    \/ HRead

SpecHash == InitHash /\ [][NextHash]_vars


\* ------------------------------------------------------ claims, SpecHash
HashReturned == hpc = "done" /\ hinfo.ok /\ hstat.ok

WholeFile(data) == Len(data) = 1 /\ data[1].lo = 0

\* C4: fileHash picks the regime from the thorough flag and the size it stat'ed
\* only: thorough gives SHA-256 of the whole file and no prefix; fast with size
\* <= 16 KiB (16 KiB included) gives CRC32 of the whole file and prefix "f";
\* fast with size > 16 KiB gives CRC32 of the crucial bytes and prefix "s";
\* a non-regular file gives an error and no hash in every regime.
C4_RegimeByFlagAndSize ==
    HashReturned =>
        /\ ~hstat.regular => hhash.err # "" /\ hhash.hash = NoHash
        /\ hhash.err # "" => hhash.hash = NoHash
        /\ hhash.err = "" =>
            /\ hThorough =>
                 /\ hhash.hash.prefix = ""
                 /\ hhash.hash.algo = "sha256"
                 /\ WholeFile(hhash.hash.data)
                 /\ ~hcrucial.called
            /\ (~hThorough /\ hstat.size <= 16384) =>
                 /\ hhash.hash.prefix = "f"
                 /\ hhash.hash.algo = "crc32"
                 /\ WholeFile(hhash.hash.data)
                 /\ ~hcrucial.called
            /\ (~hThorough /\ hstat.size > 16384) =>
                 /\ hhash.hash.prefix = "s"
                 /\ hhash.hash.algo = "crc32"
                 /\ hcrucial.called
                 /\ hhash.hash.data = hcrucial.bytes

\* a fast hash of a file of exactly 16 KiB, hashed whole
C4_Witness ==
    /\ HashReturned /\ ~hThorough /\ hstat.size = 16384
    /\ hhash.err = "" /\ hhash.hash.prefix = "f"

\* the byte ranges the claim names, for a file of size bytes
ClaimedRanges(size) ==
    << [lo |-> 0, hi |-> 8192],
       [lo |-> size \div 2, hi |-> size \div 2 + 4096],
       [lo |-> size - 4096, hi |-> size] >>

\* C7: for a size above 16 KiB readCrucialBytes reads [0, T/2), [size/2, size/2 +
\* T/4) and [size - T/4, size), in that order; the ranges lie inside the file, are
\* pairwise disjoint and total T bytes; a read that returns fewer bytes than it
\* asked for makes the function return an error and no bytes.
C7_CrucialRanges ==
    (hpc = "done" /\ hcrucial.called) =>
        LET size == hstat.size
            want == ClaimedRanges(size)
            rd == hcrucial.reads
            short == \E i \in DOMAIN rd : rd[i].n < rd[i].len
        IN  /\ size > 16384
            /\ \A i \in DOMAIN rd :
                 rd[i].off = want[i].lo /\ rd[i].off + rd[i].len = want[i].hi
            /\ \A i \in 1..3 : 0 <= want[i].lo /\ want[i].lo < want[i].hi /\ want[i].hi <= size
            /\ want[1].hi <= want[2].lo /\ want[2].hi <= want[3].lo
            /\ SumSeq([i \in 1..3 |-> want[i].hi - want[i].lo]) = 16384
            /\ short => hcrucial.err /\ hcrucial.bytes = <<>>
            /\ ~hcrucial.err =>
                 /\ Len(rd) = 3 /\ ~short
                 /\ [i \in 1..3 |-> [lo |-> hcrucial.bytes[i].lo, hi |-> hcrucial.bytes[i].hi]] = want

\* the three ranges read in full from a file one byte above the threshold
C7_Witness ==
    /\ hpc = "done" /\ hcrucial.called /\ ~hcrucial.err
    /\ hstat.size = 16385 /\ Len(hcrucial.bytes) = 3

\* a file that shrank after it was stat'ed: the last read comes back short
C7_WitnessShrank ==
    /\ hpc = "done" /\ hcrucial.called /\ hcrucial.err
    /\ Len(hcrucial.reads) = 3 /\ hcrucial.reads[3].n < hcrucial.reads[3].len

\* C9: a digest GetDigest returns in fast mode is self-consistent: FileSize is
\* the size fileHash chose the regime by, so the prefix is "f" exactly when
\* FileSize <= 16 KiB and "s" exactly when FileSize > 16 KiB.
C9_DigestSelfConsistent ==
    (hpc = "done" /\ hres.err = "" /\ ~hThorough) =>
        /\ hres.digest.FileSize = hstat.size
        /\ hres.digest.FileHash.prefix = "f" <=> hres.digest.FileSize <= 16384
        /\ hres.digest.FileHash.prefix = "s" <=> hres.digest.FileSize > 16384


\* ---------------------------------------------------------- claims, Spec
Happened(e) == e \in Range(log)
When(e) == CHOOSE i \in DOMAIN log : log[i] = e
ScanReturned == Happened("scan_returned")
RemovalRan == Happened("removed")
ReportReturned == pc \in {"removal", "done"}

Attempts(p) == Cardinality({ i \in DOMAIN removeAttempts : removeAttempts[i] = p })

\* C1: whatever the order in which the paths entered a group, and in every output
\* mode, RemoveDuplicates keeps the lexicographically smallest path of the group
\* and deletes every other path of it.
C1_KeepsSmallestPath ==
    RemovalRan =>
        \A g \in DOMAIN dupFinal :
            LET S == Range(dupFinal[g].paths)
            IN  /\ Attempts(Min(S)) = 0
                /\ Min(S) \notin deleted
                /\ \A p \in S \ {Min(S)} : Attempts(p) = 1

\* C2: RemoveDuplicates never stops at a failed deletion: every path of every
\* group but the retained (first) one gets exactly one os.Remove, also after a
\* failure, and the returned error is non-nil exactly when a delete failed and
\* then holds every failure.
C2_EveryDeleteAttempted ==
    RemovalRan =>
        /\ \A g \in DOMAIN duplicates :
             /\ Attempts(duplicates[g].paths[1]) = 0
             /\ \A j \in 2..Len(duplicates[g].paths) : Attempts(duplicates[g].paths[j]) = 1
        /\ (removeErr # <<>>) <=> (\E p \in Range(removeAttempts) : p \in removeFails)
        /\ Range(removeErr) = Range(removeAttempts) \cap removeFails
        /\ Len(removeErr) = Cardinality(Range(removeAttempts) \cap removeFails)
        /\ deleted = Range(removeAttempts) \ removeFails

\* a delete that failed, followed by a delete that went through
C2_Witness ==
    /\ RemovalRan
    /\ \E i, j \in DOMAIN removeAttempts :
         i < j /\ removeAttempts[i] \in removeFails /\ removeAttempts[j] \in deleted

\* the groups a report shows, as sets of paths
ReportedGroups ==
    IF flags.output = OutputModeCsvFile
    THEN { { reported[j].path : j \in { k \in DOMAIN reported : reported[k].digest = reported[i].digest } }
             : i \in DOMAIN reported }
    ELSE { Range(reported[i].paths) : i \in DOMAIN reported }

\* the groups of the files that hashed: same size and content, at least two files
HashedGroups ==
    LET ok == allFiles \ fileErrs
    IN  { S \in { { q \in ok : fs[q] = fs[p] } : p \in ok } : Cardinality(S) >= 2 }

C6_EveryFileHashedOnce ==
    ScanReturned =>
        /\ nworkers >= 1
        /\ exited = nworkers /\ inflight = {}
        /\ queue = <<>>
        /\ allFiles = DOMAIN fs
        /\ \A f \in allFiles : hashCount[f] = 1
        /\ \A f \in allFiles \ fileErrs :
             \E g \in DOMAIN store : f \in Range(store[g].paths)

\* two workers, a file that failed and files hashed all the same
C6_Witness ==
    /\ ScanReturned /\ nworkers = 2
    /\ fileErrs # {} /\ fileErrs # allFiles
    /\ \E f \in fileErrs, g \in allFiles \ fileErrs : f < g

\* C8: the store is read-only once the pipeline has completed: a report in any
\* output mode leaves the digests, their order, and the content and order of
\* every path list as the pipeline left them.
C8_ReportLeavesStore ==
    (pc \in {"removal", "done", "exit_creating_report", "exit_writing_report"}) =>
        duplicates = dupFinal

\* C10: a file is deleted only after FindDuplicates returned a nil error, a
\* duplicate group was found and reportDuplicates returned without error, in
\* this order; and never without the remove flag, with help or version asked
\* for, or with an input directory that failed the readability check.
C10_DeleteOnlyAfterReport ==
    (deleted # {} \/ removeAttempts # <<>>) =>
        /\ fdErr = ""
        /\ dupFinal # <<>>
        /\ Happened("scan_returned") /\ Happened("found")
        /\ Happened("reported") /\ Happened("removed")
        /\ When("scan_returned") < When("found")
        /\ When("found") < When("reported")
        /\ When("reported") < When("removed")
        /\ flags.remove /\ ~flags.isHelp /\ ~flags.getVersion /\ flags.args = "ok"

\* a file was deleted
C10_Witness == deleted # {} /\ pc = "done"

=============================================================================
